---- MODULE Spec2Model ----
(***************************************************************************)
(* The request handlers of src/index.js (an express application over one   *)
(* table, codigosliberacao) as a state machine.                            *)
(*                                                                         *)
(* A handler runs synchronously up to an `await pool.query(...)`; the      *)
(* statement then executes atomically in the datastore and the handler     *)
(* continues to its next await or to its response.  The synchronous        *)
(* prelude of a handler reads no shared state, so it is taken in one step  *)
(* with the execution of the handler's first statement.  Create (POST) is  *)
(* the one handler with two statements: its uniqueness SELECT and its      *)
(* INSERT are two steps, and other handlers may run between them.          *)
(***************************************************************************)
EXTENDS Integers, Sequences, FiniteSets

\* ------------------------------------------------------------------ bounds

\* Stored identifiers are 1..MaxId; MaxId + 1 is an identifier no Create uses.
MaxId == 2
\* Number of requests that can be in flight at once under Spec.
MaxHandlers == 2

Ids == 1..MaxId
Handlers == 1..MaxHandlers

\* ------------------------------------------------------------ JS values

\* A JavaScript value: undefined (a key missing from the body), null (a SQL
\* NULL read back from a row), a string (a sequence of characters) or a number.
Undefined == [t |-> "undefined", s |-> <<>>, n |-> 0]
Null == [t |-> "null", s |-> <<>>, n |-> 0]
Str(cs) == [t |-> "string", s |-> cs, n |-> 0]
Num(k) == [t |-> "number", s |-> <<>>, n |-> k]

Digits == <<"0", "1", "2", "3", "4", "5", "6", "7", "8", "9">>

\* !v of JavaScript: undefined, null, "" and 0 are falsy.
Falsy(v) ==
    \/ v.t \in {"undefined", "null"}
    \/ v.t = "string" /\ v.s = <<>>
    \/ v.t = "number" /\ v.n = 0

\* String(v), the coercion RegExp.prototype.test applies to its argument.
JsString(v) ==
    CASE v.t = "undefined" -> <<"u", "n", "d", "e", "f", "i", "n", "e", "d">>
      [] v.t = "null" -> <<"n", "u", "l", "l">>
      [] v.t = "number" -> <<Digits[v.n + 1]>>
      [] OTHER -> v.s

\* \s of the regular expression.
Whitespace == {" ", "\t", "\n"}

\* /^[^\s@]+@[^\s@]+\.[^\s@]+$/ : some "@" at position i and some "." at
\* position j split the string into three non-empty runs of characters that
\* are neither whitespace nor "@" (the "." itself belongs to that class).
emailRegexTest(cs) ==
    \E i \in 1..Len(cs), j \in 1..Len(cs) :
        /\ 1 < i /\ i + 1 < j /\ j < Len(cs)
        /\ cs[i] = "@"
        /\ cs[j] = "."
        /\ \A k \in (1..Len(cs)) \ {i} : cs[k] \notin Whitespace \cup {"@"}

isValidEmail(email) == emailRegexTest(JsString(email))

\* The emuso check written `!emuso`.
emusoInvalidFalsyOnly(emuso) == Falsy(emuso)

\* emuso !== 'S' && emuso !== 'N'
emusoInvalid(emuso) == emuso # Str(<<"S">>) /\ emuso # Str(<<"N">>)

\* ------------------------------------------------------------ datastore

Fields == <<"idcodigo", "codigo", "emuso", "nome", "email",
            "chave1", "chave2", "chave3", "valorhash">>
FieldSet == {Fields[i] : i \in 1..Len(Fields)}
\* The columns the UPDATE statement of PUT assigns.
SetColumns == {"emuso", "nome", "email", "chave1", "chave2", "chave3", "valorhash"}

\* A driver error as the handlers see it: error.message and error.code
\* ("" when the driver reports no code).
NoError == [message |-> "", code |-> ""]
ConnectionError == [message |-> "Connection terminated unexpectedly", code |-> ""]
UniqueViolation ==
    [message |-> "duplicate key value violates unique constraint", code |-> "23505"]

\* The driver sends an undefined parameter as NULL.
PgParam(v) == IF v.t = "undefined" THEN Null ELSE v

\* The integer a parameter denotes when compared with, or stored in, the
\* integer column idcodigo: a number as it is, a string of one digit parsed.
PgInt(v) ==
    IF v.t = "number" THEN v.n
    ELSE CHOOSE d \in 0..9 : v.s = <<Digits[d + 1]>>

\* Whether inserting `row` violates the primary key on idcodigo.
PrimaryKeyTaken(table, row) ==
    \E r \in table : r.idcodigo = row.idcodigo

\* SELECT * FROM codigosliberacao WHERE codigo = $1
SelectByCodigo(table, codigo) == {r \in table : r.codigo = PgParam(codigo)}

\* SELECT * FROM codigosliberacao WHERE idcodigo = $1
SelectById(table, idcodigo) == {r \in table : r.idcodigo.n = PgInt(idcodigo)}

\* The row INSERT ... VALUES ($1, ..., $9) builds from the nine parameters.
InsertedRow(body) ==
    [f \in FieldSet |->
        IF f = "idcodigo" THEN Num(PgInt(body[f])) ELSE PgParam(body[f])]

\* UpdatedRow with `codigo = $n` added to the SET list.
UpdatedRowWithCodigo(r, body) ==
    [f \in FieldSet |->
        IF f \in SetColumns \cup {"codigo"} THEN PgParam(body[f]) ELSE r[f]]

\* The row UPDATE ... SET emuso = $1, ..., valorhash = $7 makes of row r.
UpdatedRow(r, body) ==
    [f \in FieldSet |-> IF f \in SetColumns THEN PgParam(body[f]) ELSE r[f]]

\* UPDATE ... WHERE idcodigo = $8 RETURNING * : the rows it returns.
UpdateReturning(table, idcodigo, body) ==
    {UpdatedRow(r, body) : r \in SelectById(table, idcodigo)}

\* The table after that UPDATE.
UpdateTable(table, idcodigo, body) ==
    (table \ SelectById(table, idcodigo)) \cup UpdateReturning(table, idcodigo, body)

\* DeleteTable with the WHERE clause comparing the wrong way round (<>).
DeleteTableOthers(table, idcodigo) == SelectById(table, idcodigo)

\* The table after DELETE FROM codigosliberacao WHERE idcodigo = $1.
DeleteTable(table, idcodigo) == table \ SelectById(table, idcodigo)

\* ------------------------------------------------------------- responses
\* (The messages are the source's, written without their diacritics.)

\* A response: the HTTP status and the JSON body's keys (error; message;
\* code; the record or records sent, as a set of rows).
NoResponse == [status |-> 0, error |-> "", message |-> "", code |-> "", rows |-> {}]
ErrorReply(status, error) == [NoResponse EXCEPT !.status = status, !.error = error]
RowsReply(status, rows) == [NoResponse EXCEPT !.status = status, !.rows = rows]
MessageReply(status, message) ==
    [NoResponse EXCEPT !.status = status, !.message = message]
\* The catch block of every handler.
InternalError(err) ==
    [status |-> 500, error |-> "Erro interno do servidor",
     message |-> err.message, code |-> err.code, rows |-> {}]

NotFound == ErrorReply(404, "Registro nao encontrado")
AllRequired == ErrorReply(400, "Todos os campos sao obrigatorios")
InvalidEmail == ErrorReply(400, "Email invalido")
InvalidEmuso == ErrorReply(400, "'emuso' deve ser 'S' ou 'N'")
CodeExists == ErrorReply(409, "Codigo ja existe")
Removed == MessageReply(200, "Registro removido com sucesso")

\* A statement a handler has sent to the pool, with the error it ended in.
Sent(stmt, err) == [stmt |-> stmt, err |-> err]

\* What a handler does next: its response when it is done, else the
\* statement it awaits; `sql` is the statements it has sent so far.
Respond(res, sql) == [pc |-> "done", res |-> res, sql |-> sql]
Await(stmt, sql) == [pc |-> stmt, res |-> NoResponse, sql |-> sql]

\* ------------------------------------------------------------- handlers

\* PostCheck with the duplicate test written `rows.length > 1`.
PostCheckOffByOne(body, table, err) ==
    IF \E f \in FieldSet : Falsy(body[f]) THEN Respond(AllRequired, <<>>)
    ELSE IF ~isValidEmail(body.email) THEN Respond(InvalidEmail, <<>>)
    ELSE IF emusoInvalid(body.emuso) THEN Respond(InvalidEmuso, <<>>)
    ELSE IF err # NoError
        THEN Respond(InternalError(err), <<Sent("SELECT", err)>>)
    ELSE IF Cardinality(SelectByCodigo(table, body.codigo)) > 1
        THEN Respond(CodeExists, <<Sent("SELECT", err)>>)
    ELSE Await("INSERT", <<Sent("SELECT", err)>>)

\* PostCheck with the presence check written `=== undefined`.
PostCheckMissingOnly(body, table, err) ==
    IF \E f \in FieldSet : body[f] = Undefined THEN Respond(AllRequired, <<>>)
    ELSE IF ~isValidEmail(body.email) THEN Respond(InvalidEmail, <<>>)
    ELSE IF emusoInvalid(body.emuso) THEN Respond(InvalidEmuso, <<>>)
    ELSE IF err # NoError
        THEN Respond(InternalError(err), <<Sent("SELECT", err)>>)
    ELSE IF SelectByCodigo(table, body.codigo) # {}
        THEN Respond(CodeExists, <<Sent("SELECT", err)>>)
    ELSE Await("INSERT", <<Sent("SELECT", err)>>)

\* PostCheck with the emuso check placed before the email check.
PostCheckEmusoFirst(body, table, err) ==
    IF \E f \in FieldSet : Falsy(body[f]) THEN Respond(AllRequired, <<>>)
    ELSE IF emusoInvalid(body.emuso) THEN Respond(InvalidEmuso, <<>>)
    ELSE IF ~isValidEmail(body.email) THEN Respond(InvalidEmail, <<>>)
    ELSE IF err # NoError
        THEN Respond(InternalError(err), <<Sent("SELECT", err)>>)
    ELSE IF SelectByCodigo(table, body.codigo) # {}
        THEN Respond(CodeExists, <<Sent("SELECT", err)>>)
    ELSE Await("INSERT", <<Sent("SELECT", err)>>)

\* POST /api/chaves up to the result of its uniqueness SELECT, which ends
\* in `err` (NoError when it executed) on the table `table`.
PostCheck(body, table, err) ==
    IF \E f \in FieldSet : Falsy(body[f]) THEN Respond(AllRequired, <<>>)
    ELSE IF ~isValidEmail(body.email) THEN Respond(InvalidEmail, <<>>)
    ELSE IF emusoInvalid(body.emuso) THEN Respond(InvalidEmuso, <<>>)
    ELSE IF err # NoError
        THEN Respond(InternalError(err), <<Sent("SELECT", err)>>)
    ELSE IF SelectByCodigo(table, body.codigo) # {}
        THEN Respond(CodeExists, <<Sent("SELECT", err)>>)
    ELSE Await("INSERT", <<Sent("SELECT", err)>>)

\* PostInsert with the failure of the INSERT swallowed.
PostInsertSwallow(body, sql, err) ==
    Respond(RowsReply(201, {InsertedRow(body)}), Append(sql, Sent("INSERT", err)))

\* POST /api/chaves from its INSERT, which ends in `err`, to its response.
PostInsert(body, sql, err) ==
    IF err # NoError
        THEN Respond(InternalError(err), Append(sql, Sent("INSERT", err)))
    ELSE Respond(RowsReply(201, {InsertedRow(body)}),
                 Append(sql, Sent("INSERT", err)))

\* PutReply without the `rows.length === 0` test.
PutReplyNo404(idcodigo, body, table, err) ==
    IF ~isValidEmail(body.email) THEN Respond(InvalidEmail, <<>>)
    ELSE IF emusoInvalid(body.emuso) THEN Respond(InvalidEmuso, <<>>)
    ELSE IF err # NoError
        THEN Respond(InternalError(err), <<Sent("UPDATE", err)>>)
    ELSE Respond(RowsReply(200, UpdateReturning(table, idcodigo, body)),
                 <<Sent("UPDATE", err)>>)

\* PutReply with the presence check of Create applied to its seven fields.
PutReplyAllRequired(idcodigo, body, table, err) ==
    IF \E f \in SetColumns : Falsy(body[f]) THEN Respond(AllRequired, <<>>)
    ELSE IF ~isValidEmail(body.email) THEN Respond(InvalidEmail, <<>>)
    ELSE IF emusoInvalid(body.emuso) THEN Respond(InvalidEmuso, <<>>)
    ELSE IF err # NoError
        THEN Respond(InternalError(err), <<Sent("UPDATE", err)>>)
    ELSE IF UpdateReturning(table, idcodigo, body) = {}
        THEN Respond(NotFound, <<Sent("UPDATE", err)>>)
    ELSE Respond(RowsReply(200, UpdateReturning(table, idcodigo, body)),
                 <<Sent("UPDATE", err)>>)

\* PUT /api/chaves/:idcodigo, whose UPDATE ends in `err` on `table`.
PutReply(idcodigo, body, table, err) ==
    IF ~isValidEmail(body.email) THEN Respond(InvalidEmail, <<>>)
    ELSE IF emusoInvalid(body.emuso) THEN Respond(InvalidEmuso, <<>>)
    ELSE IF err # NoError
        THEN Respond(InternalError(err), <<Sent("UPDATE", err)>>)
    ELSE IF UpdateReturning(table, idcodigo, body) = {}
        THEN Respond(NotFound, <<Sent("UPDATE", err)>>)
    ELSE Respond(RowsReply(200, UpdateReturning(table, idcodigo, body)),
                 <<Sent("UPDATE", err)>>)

\* DELETE /api/chaves/:idcodigo, whose DELETE ends in `err` on `table`.
DeleteReply(idcodigo, table, err) ==
    IF err # NoError
        THEN Respond(InternalError(err), <<Sent("DELETE", err)>>)
    ELSE IF SelectById(table, idcodigo) = {}
        THEN Respond(NotFound, <<Sent("DELETE", err)>>)
    ELSE Respond(Removed, <<Sent("DELETE", err)>>)

\* GET /api/chaves/:idcodigo, whose SELECT ends in `err` on `table`.
GetReply(idcodigo, table, err) ==
    IF err # NoError
        THEN Respond(InternalError(err), <<Sent("SELECT", err)>>)
    ELSE IF SelectById(table, idcodigo) = {}
        THEN Respond(NotFound, <<Sent("SELECT", err)>>)
    ELSE Respond(RowsReply(200, SelectById(table, idcodigo)),
                 <<Sent("SELECT", err)>>)

\* --------------------------------------------------------------- state

VARIABLES
    codigosliberacao,   \* the table: the set of committed rows
    pc,                 \* per handler: "idle", "INSERT" (a Create awaiting its INSERT), "done"
    req,                \* per handler: the request it is serving or has just answered
    res,                \* per handler: the response it has sent
    sql,                \* per handler: the statements its request has sent to the pool
    deleted             \* the ids removed by a Delete and not inserted again since

vars == <<codigosliberacao, pc, req, res, sql, deleted>>

\* ------------------------------------------------------------- requests

ValidEmail == Str(<<"a", "@", "b", ".", "c", "o">>)
OtherEmail == Str(<<"x", ".", "y", "@", "b", ".", "c", ".", "d">>)
BadEmails == {Str(<<"a", "@", "b">>), Str(<<"a", " ", "b", "@", "c", ".", "c", "o", "m">>),
              Str(<<"@", "b", ".", "c", "o", "m">>), Str(<<"a", "@", "b", ".">>)}
\* A key missing, "", 0 and a JSON null.
FalsyValues == {Undefined, Str(<<>>), Num(0), Null}

\* A complete Create body.
NewBody(id, codigo, emuso) ==
    [idcodigo |-> Num(id), codigo |-> Str(<<codigo>>), emuso |-> Str(<<emuso>>),
     nome |-> Str(<<"n">>), email |-> ValidEmail,
     chave1 |-> Str(<<"k", "1">>), chave2 |-> Str(<<"k", "2">>),
     chave3 |-> Str(<<"k", "3">>), valorhash |-> Str(<<"h">>)]

\* A complete Update body: the seven keys PUT reads, and no others.
ChangeBody(emuso) ==
    [idcodigo |-> Undefined, codigo |-> Undefined, emuso |-> Str(<<emuso>>),
     nome |-> Str(<<"m">>), email |-> OtherEmail,
     chave1 |-> Str(<<"k", "1">>), chave2 |-> Str(<<"k", "2">>),
     chave3 |-> Str(<<"k", "3">>), valorhash |-> Str(<<"h">>)]

NoBody == [f \in FieldSet |-> Undefined]
NoRequest == [op |-> "", idcodigo |-> Undefined, body |-> NoBody]
Request(op, idcodigo, body) == [op |-> op, idcodigo |-> idcodigo, body |-> body]

\* The :idcodigo path parameters: always strings; MaxId + 1 names no record.
PathIds == {Str(<<Digits[i + 1]>>) : i \in 1..(MaxId + 1)}

\* The Create bodies of SpecOne: the complete ones; one with each field
\* falsy in each way; malformed emails; a bad emuso; and their combinations.
PostBodies ==
    {NewBody(i, c, e) : i \in Ids, c \in {"c", "d"}, e \in {"S", "N"}}
    \cup {[NewBody(1, "c", "S") EXCEPT ![f] = v] : f \in FieldSet, v \in FalsyValues}
    \cup {[NewBody(1, "c", "S") EXCEPT !.nome = a, !.email = b, !.emuso = c] :
            a \in {Str(<<"n">>), Undefined},
            b \in {ValidEmail} \cup BadEmails,
            c \in {Str(<<"S">>), Str(<<"X">>), Str(<<"s">>)}}

\* The Update bodies of SpecOne: the complete ones; one with each of the
\* seven keys absent; malformed emails; a bad emuso; and one that also
\* carries idcodigo and codigo keys.
PutBodies ==
    {ChangeBody(e) : e \in {"S", "N"}}
    \cup {[ChangeBody("N") EXCEPT ![f] = Undefined] : f \in SetColumns}
    \cup {[ChangeBody("N") EXCEPT !.email = b, !.emuso = c] :
            b \in {OtherEmail} \cup BadEmails,
            c \in {Str(<<"N">>), Str(<<"X">>)}}
    \cup {[ChangeBody("S") EXCEPT !.idcodigo = Num(MaxId + 1), !.codigo = Str(<<"z">>)]}

\* The requests of Spec, where handlers interleave: Creates of two ids that
\* share one codigo, one with a bad emuso, and Updates with a good and an
\* absent emuso.
RaceIds == {1, 2}
RacePostBodies ==
    {NewBody(i, "c", "S") : i \in RaceIds}
    \cup {[NewBody(1, "c", "S") EXCEPT !.emuso = Str(<<"X">>)]}
RacePutBodies ==
    {ChangeBody("N"), [ChangeBody("N") EXCEPT !.emuso = Undefined]}
RacePathIds == {Str(<<Digits[i + 1]>>) : i \in RaceIds}

\* The errors a statement can end in: none, or the connection failing; an
\* INSERT whose idcodigo is taken ends in the unique violation instead of none.
QueryOutcomes == {NoError, ConnectionError}
InsertOutcomes(table, row) ==
    IF PrimaryKeyTaken(table, row) THEN {UniqueViolation, ConnectionError}
    ELSE {NoError, ConnectionError}

\* ---------------------------------------------------------------- actions

Init ==
    /\ codigosliberacao = {}
    /\ pc = [p \in Handlers |-> "idle"]
    /\ req = [p \in Handlers |-> NoRequest]
    /\ res = [p \in Handlers |-> NoResponse]
    /\ sql = [p \in Handlers |-> <<>>]
    /\ deleted = {}

\* Handler p moves on as `out` says, serving request r.
Continue(p, r, out) ==
    /\ pc' = [pc EXCEPT ![p] = out.pc]
    /\ req' = [req EXCEPT ![p] = r]
    /\ res' = [res EXCEPT ![p] = out.res]
    /\ sql' = [sql EXCEPT ![p] = out.sql]

\* Whether `out` ends with a statement that executed.
Executed(out, err) == out.sql # <<>> /\ err = NoError

\* POST /api/chaves: the checks and the uniqueness SELECT.
PostChaves(p, body) ==
    /\ pc[p] = "idle"
    /\ \E err \in QueryOutcomes :
        Continue(p, Request("POST", Undefined, body),
                 PostCheck(body, codigosliberacao, err))
    /\ UNCHANGED <<codigosliberacao, deleted>>

\* PostChavesInsert with the uniqueness test made again, atomically with the
\* INSERT.
PostChavesInsertRechecked(p) ==
    /\ pc[p] = "INSERT"
    /\ \E err \in InsertOutcomes(codigosliberacao, InsertedRow(req[p].body)) :
        LET dup == SelectByCodigo(codigosliberacao, req[p].body.codigo) # {}
            out == IF dup /\ err = NoError
                   THEN Respond(CodeExists, Append(sql[p], Sent("INSERT", err)))
                   ELSE PostInsert(req[p].body, sql[p], err) IN
        /\ Continue(p, req[p], out)
        /\ codigosliberacao' =
            IF err = NoError /\ ~dup
            THEN codigosliberacao \cup {InsertedRow(req[p].body)}
            ELSE codigosliberacao
        /\ deleted' =
            IF err = NoError /\ ~dup
            THEN deleted \ {InsertedRow(req[p].body).idcodigo.n}
            ELSE deleted

\* POST /api/chaves: the INSERT and the response.
PostChavesInsert(p) ==
    /\ pc[p] = "INSERT"
    /\ \E err \in InsertOutcomes(codigosliberacao, InsertedRow(req[p].body)) :
        LET out == PostInsert(req[p].body, sql[p], err) IN
        /\ Continue(p, req[p], out)
        /\ codigosliberacao' =
            IF err = NoError
            THEN codigosliberacao \cup {InsertedRow(req[p].body)}
            ELSE codigosliberacao
        /\ deleted' =
            IF err = NoError
            THEN deleted \ {InsertedRow(req[p].body).idcodigo.n}
            ELSE deleted

\* PUT /api/chaves/:idcodigo
PutChaves(p, idcodigo, body) ==
    /\ pc[p] = "idle"
    /\ \E err \in QueryOutcomes :
        LET out == PutReply(idcodigo, body, codigosliberacao, err) IN
        /\ Continue(p, Request("PUT", idcodigo, body), out)
        /\ codigosliberacao' =
            IF Executed(out, err)
            THEN UpdateTable(codigosliberacao, idcodigo, body)
            ELSE codigosliberacao
    /\ UNCHANGED deleted

\* DELETE /api/chaves/:idcodigo
DeleteChaves(p, idcodigo) ==
    /\ pc[p] = "idle"
    /\ \E err \in QueryOutcomes :
        LET out == DeleteReply(idcodigo, codigosliberacao, err) IN
        /\ Continue(p, Request("DELETE", idcodigo, NoBody), out)
        /\ codigosliberacao' =
            IF Executed(out, err)
            THEN DeleteTable(codigosliberacao, idcodigo)
            ELSE codigosliberacao
        /\ deleted' =
            IF out.res.status = 200 THEN deleted \cup {PgInt(idcodigo)} ELSE deleted

\* GET /api/chaves/:idcodigo
GetChavesById(p, idcodigo) ==
    /\ pc[p] = "idle"
    /\ \E err \in QueryOutcomes :
        Continue(p, Request("GET", idcodigo, NoBody),
                 GetReply(idcodigo, codigosliberacao, err))
    /\ UNCHANGED <<codigosliberacao, deleted>>

\* The response is on the wire and the handler has returned: p is free to
\* serve another request.
Finish(p) ==
    /\ pc[p] = "done"
    /\ pc' = [pc EXCEPT ![p] = "idle"]
    /\ req' = [req EXCEPT ![p] = NoRequest]
    /\ res' = [res EXCEPT ![p] = NoResponse]
    /\ sql' = [sql EXCEPT ![p] = <<>>]
    /\ UNCHANGED <<codigosliberacao, deleted>>

\* Requests interleave: any handler takes the next step.
Next ==
    \E p \in Handlers :
        \/ \E body \in RacePostBodies : PostChaves(p, body)
        \/ PostChavesInsert(p)
        \/ \E idcodigo \in RacePathIds, body \in RacePutBodies : PutChaves(p, idcodigo, body)
        \/ \E idcodigo \in RacePathIds : DeleteChaves(p, idcodigo)
        \/ \E idcodigo \in RacePathIds : GetChavesById(p, idcodigo)
        \/ Finish(p)

Spec == Init /\ [][Next]_vars

\* One request at a time, over the full set of requests.
NextOne ==
    \/ \E body \in PostBodies : PostChaves(1, body)
    \/ PostChavesInsert(1)
    \/ \E idcodigo \in PathIds, body \in PutBodies : PutChaves(1, idcodigo, body)
    \/ \E idcodigo \in PathIds : DeleteChaves(1, idcodigo)
    \/ \E idcodigo \in PathIds : GetChavesById(1, idcodigo)
    \/ Finish(1)

SpecOne == Init /\ [][NextOne]_vars

\* ---------------------------------------------------------------- claims

\* Handler p receives a request in this step and runs it to its response
\* or to its second statement: req'[p] is the request.
Begins(p, op) == pc[p] = "idle" /\ pc'[p] # "idle" /\ req'[p].op = op
\* Handler p's INSERT ends in this step.
Inserts(p) == pc[p] = "INSERT" /\ pc'[p] # "INSERT"

SomeFieldFalsy(body) == \E f \in FieldSet : Falsy(body[f])
EmusoIsSorN(body) == body.emuso \in {Str(<<"S">>), Str(<<"N">>)}
RowsWithCodigo(codigo) == {r \in codigosliberacao : r.codigo = codigo}
RowsWithId(idcodigo) == {r \in codigosliberacao : r.idcodigo.n = PgInt(idcodigo)}
SentInsert(p) == \E i \in 1..Len(sql'[p]) : sql'[p][i].stmt = "INSERT"

\* C1: a Create that passes the presence, email and emuso checks while a
\* row with its codigo is committed sends no INSERT and leaves the table as
\* it is, and, its SELECT having executed, is answered 409 "Codigo ja existe".
C1_DuplicateCodigoConflict ==
    [][\A p \in Handlers :
        (/\ Begins(p, "POST")
         /\ ~SomeFieldFalsy(req'[p].body)
         /\ isValidEmail(req'[p].body.email)
         /\ EmusoIsSorN(req'[p].body)
         /\ RowsWithCodigo(req'[p].body.codigo) # {})
        => /\ pc'[p] = "done"
           /\ ~SentInsert(p)
           /\ codigosliberacao' = codigosliberacao
           /\ res'[p].status # 500 => res'[p] = CodeExists]_vars

C1_Witness ==
    \E p \in Handlers :
        /\ pc[p] = "done" /\ req[p].op = "POST"
        /\ res[p].status = 409 /\ res[p].error = "Codigo ja existe"
        /\ sql[p] = <<Sent("SELECT", NoError)>>
        /\ \E r \in codigosliberacao :
            r.codigo = req[p].body.codigo /\ r.idcodigo # req[p].body.idcodigo

\* C2: a Create with a falsy field (missing, "" or 0) is answered 400
\* "Todos os campos sao obrigatorios", sends no statement at all and
\* leaves the table as it is.
C2_FalsyFieldRejected ==
    [][\A p \in Handlers :
        (Begins(p, "POST") /\ SomeFieldFalsy(req'[p].body))
        => /\ pc'[p] = "done"
           /\ res'[p].status = 400
           /\ res'[p].error = "Todos os campos sao obrigatorios"
           /\ sql'[p] = <<>>
           /\ codigosliberacao' = codigosliberacao]_vars

C2_Witness ==
    \E p \in Handlers :
        /\ pc[p] = "done" /\ req[p].op = "POST"
        /\ req[p].body.valorhash = Num(0)
        /\ \A f \in FieldSet \ {"valorhash"} : ~Falsy(req[p].body[f])
        /\ res[p].status = 400 /\ sql[p] = <<>>

\* C3: Create answers with the first failing check in the order presence,
\* email, emuso, uniqueness; 409 and the INSERT come only after the three
\* body checks passed, and 201 only from an INSERT sent after the SELECT
\* found no row with the codigo.
C3_FirstFailureWins ==
    [][\A p \in Handlers :
        /\ Begins(p, "POST") =>
            LET body == req'[p].body IN
            /\ SomeFieldFalsy(body) => res'[p] = AllRequired
            /\ (~SomeFieldFalsy(body) /\ ~isValidEmail(body.email))
                => res'[p] = InvalidEmail
            /\ (~SomeFieldFalsy(body) /\ isValidEmail(body.email) /\ ~EmusoIsSorN(body))
                => res'[p] = InvalidEmuso
            /\ res'[p].status = 409 =>
                /\ ~SomeFieldFalsy(body) /\ isValidEmail(body.email) /\ EmusoIsSorN(body)
                /\ RowsWithCodigo(body.codigo) # {}
            /\ pc'[p] = "INSERT" =>
                /\ ~SomeFieldFalsy(body) /\ isValidEmail(body.email) /\ EmusoIsSorN(body)
                /\ RowsWithCodigo(body.codigo) = {}
            /\ res'[p].status # 201
        /\ (res'[p].status = 201 /\ req'[p].op = "POST" /\ pc[p] # "done")
            => pc[p] = "INSERT"]_vars

C3_Witness ==
    \E p \in Handlers :
        /\ pc[p] = "done" /\ req[p].op = "POST"
        /\ ~SomeFieldFalsy(req[p].body)
        /\ ~isValidEmail(req[p].body.email)
        /\ ~EmusoIsSorN(req[p].body)
        /\ RowsWithCodigo(req[p].body.codigo) # {}
        /\ res[p] = InvalidEmail

\* C4: an Update whose idcodigo matches no row leaves the table as it is
\* and, its email and emuso valid and its UPDATE having executed, is
\* answered 404 "Registro nao encontrado".
C4_UpdateMissingIs404 ==
    [][\A p \in Handlers :
        (Begins(p, "PUT") /\ RowsWithId(req'[p].idcodigo) = {})
        => /\ codigosliberacao' = codigosliberacao
           /\ pc'[p] = "done"
           /\ (/\ isValidEmail(req'[p].body.email)
               /\ EmusoIsSorN(req'[p].body)
               /\ res'[p].status # 500)
              => (res'[p].status = 404 /\ res'[p].error = "Registro nao encontrado")]_vars

C4_Witness ==
    \E p \in Handlers :
        /\ pc[p] = "done" /\ req[p].op = "PUT"
        /\ res[p].status = 404
        /\ codigosliberacao # {}
        /\ \A r \in codigosliberacao : r.idcodigo.n # PgInt(req[p].idcodigo)

\* C5: a Delete of an id with no row leaves the table as it is and, its
\* statement having executed, is answered 404; a Delete of an id with a row
\* that executes is answered 200 and removes that one row and no other; and
\* a Get by an id deleted and not inserted again since, once its SELECT has
\* executed, is answered 404.
C5_DeleteThenGetIs404 ==
    [][\A p \in Handlers :
        /\ Begins(p, "DELETE") =>
            LET hit == RowsWithId(req'[p].idcodigo) IN
            /\ pc'[p] = "done"
            /\ res'[p].status \in {200, 404, 500}
            /\ res'[p].status = 500 => codigosliberacao' = codigosliberacao
            /\ (hit = {} /\ res'[p].status # 500)
                => (res'[p].status = 404 /\ codigosliberacao' = codigosliberacao)
            /\ (hit # {} /\ res'[p].status # 500)
                => /\ res'[p] = Removed
                   /\ Cardinality(hit) = 1
                   /\ codigosliberacao' = codigosliberacao \ hit
        /\ (Begins(p, "GET") /\ PgInt(req'[p].idcodigo) \in deleted /\ res'[p].status # 500)
            => (res'[p].status = 404 /\ res'[p].error = "Registro nao encontrado")]_vars

C5_Witness ==
    \E p \in Handlers :
        /\ pc[p] = "done" /\ req[p].op = "GET"
        /\ PgInt(req[p].idcodigo) \in deleted
        /\ res[p].status = 404
        /\ codigosliberacao # {}

\* Body holds every key PUT reads but f, all valid.
OnlyAbsent(body, f) ==
    /\ body[f] = Undefined
    /\ \A g \in SetColumns \ {f} : ~Falsy(body[g])
    /\ f # "email" => isValidEmail(body.email)
    /\ f # "emuso" => EmusoIsSorN(body)

\* C6 as claimed: whichever of the seven fields an Update lacks, the
\* request is not rejected.
C6_AnyFieldMayBeAbsent ==
    \A p \in Handlers :
        (/\ pc[p] = "done" /\ req[p].op = "PUT"
         /\ \E f \in SetColumns : OnlyAbsent(req[p].body, f))
        => res[p].status # 400

\* The fields PUT passes to its UPDATE without any check.
Unchecked == SetColumns \ {"email", "emuso"}

\* C6: an Update lacking nome, chave1, chave2, chave3 or valorhash is not
\* rejected for it, and the matching row gets NULL in that column; an
\* Update lacking email is answered 400 "Email invalido", and one lacking
\* emuso (its email valid) 400 "'emuso' deve ser 'S' ou 'N'", and neither
\* writes.
C6_UncheckedFieldsPassThrough ==
    [][\A p \in Handlers :
        Begins(p, "PUT") =>
            LET body == req'[p].body IN
            /\ body.email = Undefined
                => (res'[p] = InvalidEmail /\ codigosliberacao' = codigosliberacao)
            /\ (isValidEmail(body.email) /\ body.emuso = Undefined)
                => (res'[p] = InvalidEmuso /\ codigosliberacao' = codigosliberacao)
            /\ (isValidEmail(body.email) /\ EmusoIsSorN(body))
                => /\ res'[p].status \in {200, 404, 500}
                   /\ res'[p].status = 200 =>
                        \E r \in codigosliberacao' :
                            /\ r.idcodigo.n = PgInt(req'[p].idcodigo)
                            /\ res'[p].rows = {r}
                            /\ \A f \in Unchecked :
                                body[f] = Undefined => r[f] = Null]_vars

C6_Witness ==
    \E p \in Handlers :
        /\ pc[p] = "done" /\ req[p].op = "PUT"
        /\ OnlyAbsent(req[p].body, "chave2")
        /\ res[p].status = 200
        /\ \E r \in codigosliberacao :
            r.idcodigo.n = PgInt(req[p].idcodigo) /\ r.chave2 = Null /\ r.nome # Null

Keys(table) == {<<r.idcodigo, r.codigo>> : r \in table}

\* C7: an Update keeps every row's idcodigo and codigo, adds and removes no
\* row, leaves the rows of other ids as they are, and changes of the
\* matching row only the seven columns it sets.
C7_KeysImmutable ==
    [][\A p \in Handlers :
        Begins(p, "PUT") =>
            /\ Keys(codigosliberacao') = Keys(codigosliberacao)
            /\ Cardinality(codigosliberacao') = Cardinality(codigosliberacao)
            /\ \A r \in codigosliberacao :
                r.idcodigo.n # PgInt(req'[p].idcodigo) => r \in codigosliberacao'
            /\ \A r \in codigosliberacao' \ codigosliberacao :
                \E old \in codigosliberacao :
                    \A f \in FieldSet \ SetColumns : r[f] = old[f]]_vars

C7_Witness ==
    \E p \in Handlers :
        /\ pc[p] = "done" /\ req[p].op = "PUT" /\ res[p].status = 200
        /\ req[p].body.codigo = Str(<<"z">>)
        /\ PgInt(req[p].idcodigo) # req[p].body.idcodigo.n
        /\ \E r \in codigosliberacao :
            /\ r.idcodigo.n = PgInt(req[p].idcodigo)
            /\ r.codigo \in {Str(<<"c">>), Str(<<"d">>)}
            /\ r.nome = Str(<<"m">>)
        /\ Cardinality(codigosliberacao) = 2

\* C8: every committed row has emuso "S" or "N"; a Create or Update with
\* any other emuso, or none, is answered 400 and leaves the table as it is.
C8_EmusoIsSorN ==
    /\ [](\A r \in codigosliberacao : r.emuso \in {Str(<<"S">>), Str(<<"N">>)})
    /\ [][\A p \in Handlers :
            ((Begins(p, "POST") \/ Begins(p, "PUT")) /\ ~EmusoIsSorN(req'[p].body))
            => /\ pc'[p] = "done"
               /\ res'[p].status = 400
               /\ sql'[p] = <<>>
               /\ codigosliberacao' = codigosliberacao]_vars

C8_Witness ==
    \E p \in Handlers, q \in Handlers :
        /\ pc[p] = "done" /\ req[p].op = "PUT" /\ req[p].body.emuso = Undefined
        /\ res[p].status = 400
        /\ RowsWithId(req[p].idcodigo) # {}
        /\ pc[q] = "done" /\ req[q].op = "POST" /\ res[q].status = 201
        /\ \E r \in codigosliberacao : r.emuso = Str(<<"N">>)

\* C9: a Create whose SELECT fails is answered 500 with the driver's message
\* and code, sends no INSERT and leaves the table as it is; a Create whose
\* INSERT fails, as it does when its idcodigo is taken, is answered 500,
\* adds no row and sends the INSERT once.
C9_CreateFailureIs500 ==
    [][\A p \in Handlers :
        /\ (Begins(p, "POST") /\ sql'[p] # <<>> /\ sql'[p][1].err # NoError)
            => /\ pc'[p] = "done"
               /\ sql'[p] = <<Sent("SELECT", sql'[p][1].err)>>
               /\ res'[p].status = 500
               /\ res'[p].error = "Erro interno do servidor"
               /\ res'[p].message = sql'[p][1].err.message
               /\ res'[p].code = sql'[p][1].err.code
               /\ codigosliberacao' = codigosliberacao
        /\ Inserts(p) =>
            /\ pc'[p] = "done"
            /\ Len(sql'[p]) = 2
            /\ sql'[p][1] = Sent("SELECT", NoError)
            /\ sql'[p][2].stmt = "INSERT"
            /\ sql'[p][2].err # NoError
                => /\ res'[p].status = 500
                   /\ res'[p].error = "Erro interno do servidor"
                   /\ res'[p].message = sql'[p][2].err.message
                   /\ res'[p].code = sql'[p][2].err.code
                   /\ codigosliberacao' = codigosliberacao
            /\ (\E r \in codigosliberacao : r.idcodigo = req[p].body.idcodigo)
                => (res'[p].status = 500 /\ codigosliberacao' = codigosliberacao)]_vars

C9_Witness ==
    \E p \in Handlers :
        /\ pc[p] = "done" /\ req[p].op = "POST"
        /\ res[p].status = 500 /\ res[p].code = "23505"
        /\ sql[p] = <<Sent("SELECT", NoError), Sent("INSERT", UniqueViolation)>>
        /\ \E r \in codigosliberacao :
            r.idcodigo = req[p].body.idcodigo /\ r.codigo # req[p].body.codigo
        /\ RowsWithCodigo(req[p].body.codigo) = {}

\* C10: once its SELECT has passed, a Create is never answered 409: an
\* INSERT that executes is answered 201 and adds its row, whether or not a
\* row with the same codigo has been committed since the SELECT.
C10_InsertIgnoresCodigo ==
    [][\A p \in Handlers :
        Inserts(p) =>
            /\ res'[p].status \in {201, 500}
            /\ sql'[p][Len(sql'[p])].err = NoError
                => /\ res'[p] = RowsReply(201, {InsertedRow(req[p].body)})
                   /\ codigosliberacao' = codigosliberacao \cup {InsertedRow(req[p].body)}]_vars

\* The race: two Creates of one codigo and two ids, both answered 201, and
\* both rows committed.
C10_Witness ==
    \E p \in Handlers, q \in Handlers :
        /\ p # q
        /\ pc[p] = "done" /\ req[p].op = "POST" /\ res[p].status = 201
        /\ pc[q] = "done" /\ req[q].op = "POST" /\ res[q].status = 201
        /\ req[p].body.codigo = req[q].body.codigo
        /\ req[p].body.idcodigo # req[q].body.idcodigo
        /\ sql[p] = <<Sent("SELECT", NoError), Sent("INSERT", NoError)>>
        /\ sql[q] = <<Sent("SELECT", NoError), Sent("INSERT", NoError)>>
        /\ res[p].rows \cup res[q].rows \subseteq codigosliberacao
        /\ Cardinality(RowsWithCodigo(req[p].body.codigo)) = 2

====
